---- MODULE Spec2Model ----
(***************************************************************************)
(* Energy measurement core of the package-manager energy benchmark         *)
(* (energy_meter.py): reading capture (take_reading) and the tiered energy *)
(* delta computation (compute_energy) with RAPL counter wrap-around.       *)
(*                                                                         *)
(* Number representation.  Python floats are modelled as exact integers:   *)
(* timestamps and CPU times in whole seconds, tdp_watts in whole watts,    *)
(* energies in whole joules.  Counter files hold microjoules; the model    *)
(* draws only file contents that are a whole number of joules, so that the *)
(* division by 1_000_000 is exact.  Floating-point rounding is not         *)
(* modelled.                                                               *)
(*                                                                         *)
(* Optional[float] is modelled as a sequence: <<>> is None, <<v>> is v.    *)
(***************************************************************************)
EXTENDS Integers, Sequences, FiniteSets, TLC

VARIABLES
    fs,           \* the powercap file system below RAPL_BASE
    start,        \* compute_energy argument: the start EnergyReading
    end,          \* compute_energy argument: the end EnergyReading
    tdp_watts,    \* compute_energy argument
    pc,           \* "call" | "returned" | "raised" for compute_energy
    measurement,  \* the EnergyMeasurement returned by compute_energy
    fsReads,      \* the file-system accesses made by the compute_energy call
    psutil,       \* the CPU-time facility (psutil and the process's cpu_times)
    now,          \* the monotonic clock
    rpc,          \* the position of the take_reading call
    packages,     \* take_reading's local: the discovered packages
    rapl_uj,      \* take_reading's local: the summed counters, or None
    cpu_time,     \* take_reading's local: the CPU time, or None
    reading,      \* the EnergyReading returned by take_reading
    entered,      \* the monotonic clock when take_reading was called
    trial,        \* benchmark_manager arguments: runner, packages, run_index
    tpc,          \* the position of the benchmark_manager call
    events,       \* what the benchmark_manager call has done, with the clock
    tmpdir,       \* the trial's temporary directory: "none" | "exists" | "removed"
    error,        \* the exception benchmark_manager is raising, or "none"
    result,       \* the BenchmarkResult returned by benchmark_manager
    out,          \* the output path: parent directories, file, its lines
    out0,         \* the output path before the first append_result call
    calls,        \* the results append_result was called with, in call order
    available,    \* the names of the runners whose is_available() is true
    args,         \* main's parsed arguments: managers, repetitions
    mpc,          \* the position of the main call
    runners,      \* main's list of runners to benchmark
    loop,         \* main's loop position: the runner's index and run_idx
    completed,    \* main's counter of finished trials
    log,          \* the trials main has run, with their outcome
    rc,           \* main's return value
    rows,         \* the rows summarize is called with
    spc,          \* the position of the summarize call
    summary       \* the dictionary summarize returns

computeVars == <<start, end, tdp_watts, pc, measurement, fsReads>>
readingVars == <<psutil, now, rpc, packages, rapl_uj, cpu_time, reading, entered>>
trialVars == <<trial, tpc, events, tmpdir, error, result>>
csvVars == <<out, out0, calls>>
mainVars == <<available, args, mpc, runners, loop, completed, log, rc>>
summaryVars == <<rows, spc, summary>>
extVars == <<trialVars, csvVars, mainVars, summaryVars>>
vars == <<fs, computeVars, readingVars, extVars>>

(* BenchmarkResult *)
BenchmarkResult(m, op, pk, run, d, e, src, n) ==
    [manager |-> m, operation |-> op, packages |-> pk, run |-> run,
     duration_seconds |-> d, energy_joules |-> e, energy_source |-> src, notes |-> n]

NoResult == BenchmarkResult("", "", <<>>, 0, 0, 0, "", <<>>)
NoTrial == [runner |-> "", packages |-> <<>>, run_index |-> 0]

(* The variables of the operations a specification does not run *)
TrialIdle ==
    /\ trial = NoTrial
    /\ tpc = "idle"
    /\ events = <<>>
    /\ tmpdir = "none"
    /\ error = "none"
    /\ result = NoResult

NoOutput == [parent |-> TRUE, exists |-> FALSE, writable |-> TRUE, lines |-> <<>>]

CsvIdle ==
    /\ out = NoOutput
    /\ out0 = NoOutput
    /\ calls = <<>>

MainIdle ==
    /\ available = {}
    /\ args = [managers |-> <<>>, repetitions |-> 0]
    /\ mpc = "idle"
    /\ runners = <<>>
    /\ loop = <<0, 0>>
    /\ completed = 0
    /\ log = <<>>
    /\ rc = -1

SummaryIdle ==
    /\ rows = <<>>
    /\ spc = "idle"
    /\ summary = <<>>

ExtIdle == TrialIdle /\ CsvIdle /\ MainIdle /\ SummaryIdle

----------------------------------------------------------------------------
(* Bounds of the model *)

MaxTime == 1      \* timestamps are drawn from 0..MaxTime
MaxJoules == 2    \* rapl_joules values are drawn from 0..MaxJoules
MaxCpu == 1       \* cpu_time_seconds values are drawn from 0..MaxCpu
MaxTdp == 1       \* tdp_watts is drawn from 0..MaxTdp and DEFAULT_TDP_WATTS

(* Program constants *)

UJ_PER_JOULE == 1000000
DEFAULT_TDP_WATTS == 15

----------------------------------------------------------------------------
(* Optional values *)

None == <<>>
Some(v) == <<v>>
IsNone(o) == Len(o) = 0
IsSome(o) == Len(o) = 1
Val(o) == o[1]

Abs(x) == IF x < 0 THEN -x ELSE x

----------------------------------------------------------------------------
(* The file system below RAPL_BASE.                                        *)
(* A directory name is a sequence of tokens; the first token of a RAPL     *)
(* name is the prefix "intel-rapl:".                                       *)

PKG0 == <<"intel-rapl:", "0">>
PKG1 == <<"intel-rapl:", "1">>
SUB00 == <<"intel-rapl:", "0", ":", "0">>
MMIO0 == <<"intel-rapl-mmio:", "0">>

Names == {PKG0, PKG1, SUB00, MMIO0}

(* The rank of a token in string order: '-' < '0' < '1' < ':' *)
TokRank(t) ==
    CASE t = "intel-rapl-mmio:" -> 0
      [] t = "intel-rapl:" -> 1
      [] t = "0" -> 2
      [] t = "1" -> 3
      [] t = ":" -> 4

RECURSIVE NameLess(_, _)
NameLess(a, b) ==
    IF a = <<>> THEN b # <<>>
    ELSE IF b = <<>> THEN FALSE
    ELSE IF Head(a) # Head(b) THEN TokRank(Head(a)) < TokRank(Head(b))
    ELSE NameLess(Tail(a), Tail(b))

(* sorted(...) of a set of names *)
RECURSIVE SortedNames(_)
SortedNames(S) ==
    IF S = {} THEN <<>>
    ELSE LET m == CHOOSE x \in S : \A y \in S \ {x} : NameLess(x, y)
         IN  <<m>> \o SortedNames(S \ {m})

(* A file: absent, unreadable (OSError on read), garbage (ValueError in    *)
(* float()), or numeric with its value.                                    *)
Absent == [kind |-> "absent", value |-> 0]
Unreadable == [kind |-> "unreadable", value |-> 0]
Garbage == [kind |-> "garbage", value |-> 0]
Numeric(n) == [kind |-> "numeric", value |-> n]

Exists(file) == file.kind # "absent"

(* float(path.read_text().strip()): ok with the value, or an exception *)
ReadFloat(file) ==
    IF file.kind = "numeric" THEN [ok |-> TRUE, value |-> file.value]
    ELSE [ok |-> FALSE, value |-> 0]

NoDir == [present |-> FALSE, energy_uj |-> Absent, max_energy_range_uj |-> Absent]
Dir(e, m) == [present |-> TRUE, energy_uj |-> e, max_energy_range_uj |-> m]

----------------------------------------------------------------------------
(* _rapl_packages *)

IsPackageName_PrefixOnly(n) ==
    /\ Len(n) >= 1
    /\ Head(n) = "intel-rapl:"

IsPackageName(n) ==
    /\ Len(n) >= 1
    /\ Head(n) = "intel-rapl:"
    /\ \A i \in 2..Len(n) : n[i] # ":"

RaplPackages(f) ==
    IF f.base = "missing" THEN [raised |-> FALSE, list |-> <<>>]
    ELSE IF f.base = "unlistable" THEN [raised |-> TRUE, list |-> <<>>]
    ELSE [raised |-> FALSE,
          list |-> SortedNames({n \in Names :
                      /\ f.dirs[n].present
                      /\ IsPackageName(n)
                      /\ Exists(f.dirs[n].energy_uj)})]

----------------------------------------------------------------------------
(* EnergyReading and EnergyMeasurement *)

EnergyReading(ts, rapl, cpu) ==
    [timestamp |-> ts, rapl_joules |-> rapl, cpu_time_seconds |-> cpu]

EnergyMeasurement(d, e, src, n) ==
    [duration_seconds |-> d, energy_joules |-> e, source |-> src, notes |-> n]

(* microjoules to joules: uj / 1_000_000 *)
ToJoules_NoScale(uj) == uj

ToJoules(uj) == uj \div UJ_PER_JOULE

(* The f-string ":.3f" rendering of a whole number of seconds x is "x.000", *)
(* modelled as the number of thousandths.                                   *)
Fmt3(x) == x * 1000

(* The notes strings, as token sequences; <<>> is the empty string. *)
CpuNotes(cpu_delta, tdp) ==
    <<"Estimated using cpu_time=", Fmt3(cpu_delta), "s x tdp=", tdp, "W">>

ElapsedNotes(duration, tdp) ==
    <<"Estimated using elapsed=", Fmt3(duration), "s x tdp=", tdp,
      "W (no CPU time available)">>

----------------------------------------------------------------------------
(* compute_energy *)

(* sum(float(read(p/max_energy_range_uj)) for p in packages if exists):     *)
(* a missing file is skipped, the first unreadable or non-numeric file      *)
(* raises (ok = FALSE).  reads lists the packages whose file was read.      *)
RECURSIVE SumMaxRange(_, _)
SumMaxRange(f, pkgs) ==
    IF pkgs = <<>> THEN [ok |-> TRUE, total |-> 0, reads |-> <<>>]
    ELSE LET p == Head(pkgs)
             file == f.dirs[p].max_energy_range_uj
         IN  IF ~Exists(file) THEN SumMaxRange(f, Tail(pkgs))
             ELSE LET r == ReadFloat(file)
                  IN  IF ~r.ok THEN [ok |-> FALSE, total |-> 0, reads |-> <<p>>]
                      ELSE LET rest == SumMaxRange(f, Tail(pkgs))
                           IN  [ok |-> rest.ok,
                                total |-> r.value + rest.total,
                                reads |-> <<p>> \o rest.reads]

NoMeasurement == EnergyMeasurement(0, 0, "", <<>>)

Returned(m, reads) == [raised |-> FALSE, measurement |-> m, reads |-> reads]
Raised(reads) == [raised |-> TRUE, measurement |-> NoMeasurement, reads |-> reads]

(* duration = end.timestamp - start.timestamp *)
Duration(s, e) == e.timestamp - s.timestamp

(* Tier 1 guard: both rapl_joules are present *)
RaplTierApplies_CpuFirst(s, e) ==
    /\ IsSome(s.rapl_joules) /\ IsSome(e.rapl_joules)
    /\ ~(IsSome(s.cpu_time_seconds) /\ IsSome(e.cpu_time_seconds))

RaplTierApplies(s, e) == IsSome(s.rapl_joules) /\ IsSome(e.rapl_joules)

(* Tier 2 guard: both cpu_time_seconds are present *)
CpuTierApplies(s, e) == IsSome(s.cpu_time_seconds) /\ IsSome(e.cpu_time_seconds)

(* if delta < 0 *)
Wrapped_OrZero(delta) == delta <= 0

Wrapped(delta) == delta < 0

(* delta += max_uj / 1_000_000, or delta = abs(delta) when the sum raised *)
CorrectedDelta_AlwaysAbs(delta, sum) == Abs(delta)

CorrectedDelta(delta, sum) ==
    IF sum.ok THEN delta + ToJoules(sum.total) ELSE Abs(delta)

(* The wrap-around branch: packages = _rapl_packages() is outside the try, *)
(* so a listing error propagates to the caller.                            *)
WrapCorrection(delta, f) ==
    LET pk == RaplPackages(f)
    IN  IF pk.raised
        THEN [raised |-> TRUE, delta |-> delta, reads |-> <<<<"_rapl_packages">>>>]
        ELSE LET sum == SumMaxRange(f, pk.list)
             IN  [raised |-> FALSE,
                  delta |-> CorrectedDelta(delta, sum),
                  reads |-> <<<<"_rapl_packages">>>> \o
                            [i \in 1..Len(sum.reads) |->
                                <<"max_energy_range_uj", sum.reads[i]>>]]

RaplTier(s, e, f) ==
    LET delta == Val(e.rapl_joules) - Val(s.rapl_joules)
    IN  IF Wrapped(delta)
        THEN LET w == WrapCorrection(delta, f)
             IN  IF w.raised THEN Raised(w.reads)
                 ELSE Returned(EnergyMeasurement(Duration(s, e), w.delta, "rapl", <<>>),
                               w.reads)
        ELSE Returned(EnergyMeasurement(Duration(s, e), delta, "rapl", <<>>), <<>>)

CpuTier_Elapsed(s, e, tdp) ==
    LET cpu_delta == Val(e.cpu_time_seconds) - Val(s.cpu_time_seconds)
    IN  Returned(EnergyMeasurement(Duration(s, e), Duration(s, e) * tdp,
                                   "cpu_time_estimate", CpuNotes(cpu_delta, tdp)), <<>>)

CpuTier(s, e, tdp) ==
    LET cpu_delta == Val(e.cpu_time_seconds) - Val(s.cpu_time_seconds)
        estimated == cpu_delta * tdp
    IN  Returned(EnergyMeasurement(Duration(s, e), estimated,
                                   "cpu_time_estimate", CpuNotes(cpu_delta, tdp)), <<>>)

ElapsedTier_DefaultTdp(s, e, tdp) ==
    Returned(EnergyMeasurement(Duration(s, e), Duration(s, e) * DEFAULT_TDP_WATTS,
                               "elapsed_time_estimate",
                               ElapsedNotes(Duration(s, e), tdp)), <<>>)

ElapsedTier(s, e, tdp) ==
    Returned(EnergyMeasurement(Duration(s, e), Duration(s, e) * tdp,
                               "elapsed_time_estimate",
                               ElapsedNotes(Duration(s, e), tdp)), <<>>)

compute_energy(s, e, tdp, f) ==
    IF RaplTierApplies(s, e) THEN RaplTier(s, e, f)
    ELSE IF CpuTierApplies(s, e) THEN CpuTier(s, e, tdp)
    ELSE ElapsedTier(s, e, tdp)

----------------------------------------------------------------------------
(* _read_rapl_uj, _read_cpu_time and take_reading *)

(* Sum energy_uj over the packages; None on the first OSError/ValueError *)
RECURSIVE ReadRaplUjFrom(_, _, _)
ReadRaplUjFrom(f, pkgs, total) ==
    IF pkgs = <<>> THEN Some(total)
    ELSE LET r == ReadFloat(f.dirs[Head(pkgs)].energy_uj)
         IN  IF ~r.ok THEN None
             ELSE ReadRaplUjFrom(f, Tail(pkgs), total + r.value)

(* a partial sum: a counter that cannot be read is skipped *)
RECURSIVE ReadRaplUjSkipping(_, _, _)
ReadRaplUjSkipping(f, pkgs, total) ==
    IF pkgs = <<>> THEN Some(total)
    ELSE LET r == ReadFloat(f.dirs[Head(pkgs)].energy_uj)
         IN  ReadRaplUjSkipping(f, Tail(pkgs), IF r.ok THEN total + r.value ELSE total)

ReadRaplUj_Partial(f, pkgs) == ReadRaplUjSkipping(f, pkgs, 0)

ReadRaplUj(f, pkgs) == ReadRaplUjFrom(f, pkgs, 0)

(* psutil: "missing" (import fails), "failing" (Process() or cpu_times()   *)
(* raises), or "ok" with the times; children marks a platform whose times  *)
(* carry children_user and children_system.                                *)
PsutilMissing ==
    [kind |-> "missing", user |-> 0, system |-> 0, children |-> FALSE,
     children_user |-> 0, children_system |-> 0]
PsutilFailing ==
    [kind |-> "failing", user |-> 0, system |-> 0, children |-> FALSE,
     children_user |-> 0, children_system |-> 0]
PsutilTimes(u, sy, ch, cu, cs) ==
    [kind |-> "ok", user |-> u, system |-> sy, children |-> ch,
     children_user |-> cu, children_system |-> cs]

ReadCpuTime(ps) ==
    IF ps.kind # "ok" THEN None
    ELSE LET total == ps.user + ps.system
         IN  IF ps.children
             THEN Some(total + ps.children_user + ps.children_system)
             ELSE Some(total)

NoReading == EnergyReading(0, None, None)

(* line 79: packages = _rapl_packages(); a listing error is not caught *)
TakeReadingPackages ==
    /\ rpc = "packages"
    /\ LET pk == RaplPackages(fs)
       IN  /\ rpc' = IF pk.raised THEN "raised" ELSE "read_rapl"
           /\ packages' = pk.list
    /\ UNCHANGED <<fs, computeVars, psutil, now, rapl_uj, cpu_time, reading, entered, extVars>>

(* line 80: rapl_uj = _read_rapl_uj(packages) if packages else None *)
TakeReadingRapl ==
    /\ rpc = "read_rapl"
    /\ rapl_uj' = IF packages # <<>> THEN ReadRaplUj(fs, packages) ELSE None
    /\ rpc' = "read_cpu"
    /\ UNCHANGED <<fs, computeVars, psutil, now, packages, cpu_time, reading, entered, extVars>>

(* line 81: cpu_time = _read_cpu_time() *)
TakeReadingCpu ==
    /\ rpc = "read_cpu"
    /\ cpu_time' = ReadCpuTime(psutil)
    /\ rpc' = "monotonic"
    /\ UNCHANGED <<fs, computeVars, psutil, now, packages, rapl_uj, reading, entered, extVars>>

(* lines 82-86: the reading is built, its timestamp read from the clock *)
TakeReadingReturn ==
    /\ rpc = "monotonic"
    /\ reading' = EnergyReading(now,
                      IF IsSome(rapl_uj) THEN Some(ToJoules(Val(rapl_uj))) ELSE None,
                      cpu_time)
    /\ rpc' = "returned"
    /\ UNCHANGED <<fs, computeVars, psutil, now, packages, rapl_uj, cpu_time, entered, extVars>>

(* The monotonic clock advances while take_reading runs *)
Tick ==
    /\ rpc \in {"packages", "read_rapl", "read_cpu", "monotonic"}
    /\ now < MaxTime
    /\ now' = now + 1
    /\ UNCHANGED <<fs, computeVars, psutil, rpc, packages, rapl_uj, cpu_time, reading, entered, extVars>>

----------------------------------------------------------------------------
(* The inputs of the compute_energy specification *)

Optionals(max) == {None} \cup {Some(v) : v \in 0..max}

Readings ==
    {EnergyReading(ts, rapl, cpu) :
        ts \in 0..MaxTime, rapl \in Optionals(MaxJoules), cpu \in Optionals(MaxCpu)}

Tdps == (0..MaxTdp) \cup {DEFAULT_TDP_WATTS}

(* max_energy_range_uj of a package: PKG0 wraps at MaxJoules joules, PKG1   *)
(* at one joule.                                                            *)
MaxRangeUj(n) == IF n = PKG0 THEN MaxJoules * UJ_PER_JOULE ELSE UJ_PER_JOULE

(* The states of one package directory at correction time *)
PackageDirs(n) ==
    {NoDir, Dir(Absent, Numeric(MaxRangeUj(n)))} \cup
    {Dir(Numeric(0), m) : m \in {Absent, Unreadable, Garbage, Numeric(MaxRangeUj(n))}}

FsMissing == [base |-> "missing", dirs |-> [n \in Names |-> NoDir]]
FsUnlistable == [base |-> "unlistable", dirs |-> [n \in Names |-> NoDir]]

CorrectionFileSystems ==
    {FsMissing, FsUnlistable} \cup
    {[base |-> "ok",
      dirs |-> [n \in Names |->
                  CASE n = PKG0 -> d0
                    [] n = PKG1 -> d1
                    [] n = SUB00 -> Dir(Numeric(0), Numeric(UJ_PER_JOULE))
                    [] n = MMIO0 -> Dir(Numeric(0), Numeric(UJ_PER_JOULE))]] :
        d0 \in PackageDirs(PKG0), d1 \in PackageDirs(PKG1)}

Init ==
    /\ fs \in CorrectionFileSystems
    /\ start \in Readings
    /\ end \in Readings
    /\ tdp_watts \in Tdps
    /\ pc = "call"
    /\ measurement = NoMeasurement
    /\ fsReads = <<>>
    /\ psutil = PsutilMissing
    /\ now = 0
    /\ rpc = "idle"
    /\ packages = <<>>
    /\ rapl_uj = None
    /\ cpu_time = None
    /\ reading = NoReading
    /\ entered = 0
    /\ ExtIdle

ComputeEnergy ==
    /\ pc = "call"
    /\ LET r == compute_energy(start, end, tdp_watts, fs)
       IN  /\ pc' = IF r.raised THEN "raised" ELSE "returned"
           /\ measurement' = r.measurement
           /\ fsReads' = r.reads
    /\ UNCHANGED <<fs, start, end, tdp_watts, readingVars, extVars>>

Next == ComputeEnergy

Spec == Init /\ [][Next]_vars

----------------------------------------------------------------------------
(* The take_reading specification: one call in every environment *)

(* The states of one package directory when a reading is taken *)
CounterDirs ==
    {NoDir} \cup
    {Dir(e, Absent) : e \in {Absent, Unreadable, Garbage} \cup
                            {Numeric(j * UJ_PER_JOULE) : j \in 0..MaxJoules}}

(* A directory that is no package: absent, or present with a counter *)
OtherDirs == {NoDir, Dir(Numeric(UJ_PER_JOULE), Absent)}

ReadingFileSystems ==
    {FsMissing, FsUnlistable} \cup
    {[base |-> "ok",
      dirs |-> [n \in Names |->
                  CASE n = PKG0 -> d0
                    [] n = PKG1 -> d1
                    [] n = SUB00 -> ds
                    [] n = MMIO0 -> dm]] :
        d0 \in CounterDirs, d1 \in CounterDirs, ds \in OtherDirs, dm \in OtherDirs}

Psutils ==
    {PsutilMissing, PsutilFailing} \cup
    {PsutilTimes(u, sy, FALSE, 0, 0) : u \in 0..MaxCpu, sy \in 0..MaxCpu} \cup
    {PsutilTimes(u, sy, TRUE, cu, cs) :
        u \in 0..MaxCpu, sy \in 0..MaxCpu, cu \in 0..MaxCpu, cs \in 0..MaxCpu}

InitReading ==
    /\ fs \in ReadingFileSystems
    /\ psutil \in Psutils
    /\ now = 0
    /\ rpc = "packages"
    /\ packages = <<>>
    /\ rapl_uj = None
    /\ cpu_time = None
    /\ reading = NoReading
    /\ entered = now
    /\ start = NoReading
    /\ end = NoReading
    /\ tdp_watts = DEFAULT_TDP_WATTS
    /\ pc = "idle"
    /\ measurement = NoMeasurement
    /\ fsReads = <<>>
    /\ ExtIdle

NextReading ==
    \/ TakeReadingPackages
    \/ TakeReadingRapl
    \/ TakeReadingCpu
    \/ TakeReadingReturn
    \/ Tick

SpecReading == InitReading /\ [][NextReading]_vars

----------------------------------------------------------------------------
(* Vocabulary of the compute_energy properties *)

Called == pc # "call"
HasReturned == pc = "returned"
BothRapl == IsSome(start.rapl_joules) /\ IsSome(end.rapl_joules)
BothCpu == IsSome(start.cpu_time_seconds) /\ IsSome(end.cpu_time_seconds)
RaplDelta == Val(end.rapl_joules) - Val(start.rapl_joules)
CpuDelta == Val(end.cpu_time_seconds) - Val(start.cpu_time_seconds)

(* The packages found at correction time, when the listing succeeds *)
Listable == fs.base # "unlistable"
Discovered ==
    IF fs.base = "ok"
    THEN {n \in {PKG0, PKG1} : fs.dirs[n].present /\ Exists(fs.dirs[n].energy_uj)}
    ELSE {}
MaxRangeFile(n) == fs.dirs[n].max_energy_range_uj
RangeReadable(n) == MaxRangeFile(n).kind = "numeric"

(* joules of a whole-joule microjoule count, by repeated subtraction *)
RECURSIVE WholeJoules(_)
WholeJoules(uj) == IF uj < UJ_PER_JOULE THEN 0 ELSE 1 + WholeJoules(uj - UJ_PER_JOULE)

RECURSIVE RangeJoulesOver(_)
RangeJoulesOver(S) ==
    IF S = {} THEN 0
    ELSE LET n == CHOOSE x \in S : TRUE
         IN  WholeJoules(MaxRangeFile(n).value) + RangeJoulesOver(S \ {n})

----------------------------------------------------------------------------
(* C1: for readings with end.timestamp >= start.timestamp and a            *)
(* non-negative tdp_watts, the returned energy_joules is >= 0 in every     *)
(* tier and for every state of the max_energy_range_uj files.              *)
(* Violated: a wrap with no max range to add returns the negative delta.   *)
(* The formula is stated for readings whose cumulative CPU time does not   *)
(* decrease, as two successive take_reading calls produce them.            *)
C1_EnergyNonNegative ==
    (/\ HasReturned
     /\ end.timestamp >= start.timestamp
     /\ tdp_watts >= 0
     /\ (BothCpu => CpuDelta >= 0))
        => measurement.energy_joules >= 0

(* C2: the tier is selected top-down, first applicable wins: source is     *)
(* "rapl" iff both rapl_joules are present, "cpu_time_estimate" iff a      *)
(* rapl_joules is absent and both cpu_time_seconds are present,            *)
(* "elapsed_time_estimate" otherwise; no other source is returned.         *)
C2_TierSelection ==
    HasReturned =>
        /\ measurement.source \in {"rapl", "cpu_time_estimate", "elapsed_time_estimate"}
        /\ (measurement.source = "rapl") <=> BothRapl
        /\ (measurement.source = "cpu_time_estimate") <=> (~BothRapl /\ BothCpu)
        /\ (measurement.source = "elapsed_time_estimate") <=> (~BothRapl /\ ~BothCpu)

C2_Witness ==
    /\ HasReturned /\ BothRapl /\ BothCpu
    /\ measurement.source = "rapl"

(* C3: with both rapl_joules present and a delta >= 0, compute_energy      *)
(* returns source "rapl", energy_joules = end - start, empty notes, and    *)
(* makes no file-system access (no max-range file is consulted).           *)
C3_DirectDelta ==
    (Called /\ BothRapl /\ RaplDelta >= 0) =>
        /\ HasReturned
        /\ measurement.source = "rapl"
        /\ measurement.energy_joules = Val(end.rapl_joules) - Val(start.rapl_joules)
        /\ measurement.notes = <<>>
        /\ fsReads = <<>>

C3_Witness ==
    /\ HasReturned /\ BothRapl /\ RaplDelta > 0
    /\ fs.base = "ok" /\ Discovered = {PKG0, PKG1}
    /\ measurement.energy_joules = RaplDelta

(* The max-range values cannot be read at correction time *)
C4_RangeUnavailable ==
    /\ Listable
    /\ \/ Discovered = {}
       \/ \E n \in Discovered : ~RangeReadable(n)

(* C4: in the hardware tier with delta < 0, when the max-range values      *)
(* cannot be read (a discovered package's file is missing, unreadable or   *)
(* non-numeric, or no package is discovered), energy_joules = abs(delta)   *)
(* with source "rapl".                                                     *)
(* Violated: a missing file is skipped and an empty discovery sums to 0.   *)
C4_UnreadableRangeGivesAbs ==
    (Called /\ BothRapl /\ RaplDelta < 0 /\ C4_RangeUnavailable) =>
        /\ HasReturned
        /\ measurement.source = "rapl"
        /\ measurement.energy_joules = Abs(RaplDelta)

(* Some package is discovered and every max range is numeric *)
C5_AllRangesReadable ==
    /\ Listable
    /\ Discovered # {}
    /\ \A n \in Discovered : RangeReadable(n)

(* C5: in the hardware tier with delta < 0, when at least one package is   *)
(* discovered and every discovered package's max range is readable,        *)
(* compute_energy enumerates the packages again, reads each one's max      *)
(* range, and returns energy_joules = delta + the sum over the discovered  *)
(* packages of max_energy_range_uj / 1,000,000, with source "rapl".        *)
C5_WrapAddsRangeSum ==
    (Called /\ BothRapl /\ RaplDelta < 0 /\ C5_AllRangesReadable) =>
        /\ HasReturned
        /\ measurement.source = "rapl"
        /\ measurement.energy_joules = RaplDelta + RangeJoulesOver(Discovered)
        /\ Len(fsReads) = 1 + Cardinality(Discovered)
        /\ fsReads[1] = <<"_rapl_packages">>
        /\ \A n \in Discovered :
              \E i \in 2..Len(fsReads) : fsReads[i] = <<"max_energy_range_uj", n>>

C5_Witness ==
    /\ HasReturned /\ BothRapl /\ RaplDelta < 0
    /\ Discovered = {PKG0, PKG1}
    /\ C5_AllRangesReadable
    /\ measurement.energy_joules = RaplDelta + MaxJoules + 1

(* Exactly the package n is discovered, its range R readable, and the     *)
(* readings satisfy 0 <= end.rapl_joules < start.rapl_joules <= R.        *)
C6_OnePackage(n) ==
    /\ Listable
    /\ Discovered = {n}
    /\ RangeReadable(n)
    /\ BothRapl
    /\ 0 <= Val(end.rapl_joules)
    /\ Val(end.rapl_joules) < Val(start.rapl_joules)
    /\ Val(start.rapl_joules) <= WholeJoules(MaxRangeFile(n).value)

C7_CpuTimeEstimate ==
    (Called /\ ~BothRapl /\ BothCpu) =>
        /\ HasReturned
        /\ measurement.source = "cpu_time_estimate"
        /\ measurement.energy_joules =
              (Val(end.cpu_time_seconds) - Val(start.cpu_time_seconds)) * tdp_watts
        /\ measurement.notes # <<>>
        /\ measurement.notes[1] = "Estimated using cpu_time="
        /\ measurement.notes[2] = Fmt3(CpuDelta)
        /\ measurement.notes[4] = tdp_watts

C7_Witness ==
    /\ HasReturned /\ ~BothRapl /\ BothCpu
    /\ CpuDelta > 0 /\ tdp_watts > 0
    /\ end.timestamp - start.timestamp # CpuDelta
    /\ measurement.energy_joules = CpuDelta * tdp_watts

(* C8: when neither the hardware tier nor the CPU-time tier applies,       *)
(* compute_energy returns source "elapsed_time_estimate", energy_joules =  *)
(* duration_seconds * tdp_watts, and non-empty notes holding the elapsed   *)
(* duration and tdp_watts.                                                 *)
C8_ElapsedTimeEstimate ==
    (Called /\ ~BothRapl /\ ~BothCpu) =>
        /\ HasReturned
        /\ measurement.source = "elapsed_time_estimate"
        /\ measurement.energy_joules = measurement.duration_seconds * tdp_watts
        /\ measurement.energy_joules = (end.timestamp - start.timestamp) * tdp_watts
        /\ measurement.notes # <<>>
        /\ measurement.notes[1] = "Estimated using elapsed="
        /\ measurement.notes[2] = Fmt3(end.timestamp - start.timestamp)
        /\ measurement.notes[4] = tdp_watts

C8_Witness ==
    /\ HasReturned /\ ~BothRapl /\ ~BothCpu
    /\ IsSome(start.cpu_time_seconds) /\ IsNone(end.cpu_time_seconds)
    /\ end.timestamp > start.timestamp /\ tdp_watts = DEFAULT_TDP_WATTS
    /\ measurement.energy_joules = (end.timestamp - start.timestamp) * DEFAULT_TDP_WATTS

(* C9: for every pair of readings and every tier compute_energy returns    *)
(* duration_seconds = end.timestamp - start.timestamp; a negative duration *)
(* is passed through unchanged and no error is raised.                     *)
(* Violated: in the wrap-around branch a listing error of the counter      *)
(* directory propagates, so nothing is returned.                           *)
C9_DurationAlwaysReturned ==
    Called =>
        /\ HasReturned
        /\ measurement.duration_seconds = end.timestamp - start.timestamp

----------------------------------------------------------------------------
(* C10: take_reading never fails: in every environment (counter directory  *)
(* missing or not listable, a counter file unreadable or non-numeric, the  *)
(* CPU-time facility missing or failing) it returns an EnergyReading with  *)
(* a timestamp, a signal that could not be read being absent.              *)
(* Violated: a counter directory that cannot be listed makes               *)
(* _rapl_packages raise, and take_reading with it.                         *)
C10_TakeReadingNeverFails ==
    /\ rpc # "raised"
    /\ rpc = "returned" =>
          /\ reading.timestamp = now
          /\ (psutil.kind # "ok") => IsNone(reading.cpu_time_seconds)
          /\ (\/ fs.base # "ok"
              \/ \E n \in {PKG0, PKG1} :
                    /\ fs.dirs[n].present
                    /\ fs.dirs[n].energy_uj.kind \in {"unreadable", "garbage"})
                => IsNone(reading.rapl_joules)

----------------------------------------------------------------------------
(* Vocabulary of the take_reading properties *)

ReadingReturned == rpc = "returned"

(* The hardware sources of the file system: the package directories that   *)
(* expose an energy_uj file.                                               *)
Sources ==
    IF fs.base = "ok"
    THEN {n \in {PKG0, PKG1} : fs.dirs[n].present /\ fs.dirs[n].energy_uj.kind # "absent"}
    ELSE {}

CounterNumeric(n) == fs.dirs[n].energy_uj.kind = "numeric"

RECURSIVE CounterJoulesOver(_)
CounterJoulesOver(S) ==
    IF S = {} THEN 0
    ELSE LET n == CHOOSE x \in S : TRUE
         IN  WholeJoules(fs.dirs[n].energy_uj.value) + CounterJoulesOver(S \ {n})

(* C11: the hardware reading is all-or-nothing: the returned rapl_joules   *)
(* is present iff at least one source is discovered and every discovered   *)
(* source's energy_uj is readable and numeric, and it is then the sum of   *)
(* the sources' microjoules divided by 1,000,000; one unreadable or        *)
(* non-numeric source makes it absent, never a partial sum.                *)
C11_AllOrNothing ==
    ReadingReturned =>
        /\ IsSome(reading.rapl_joules) <=>
              (Sources # {} /\ \A n \in Sources : CounterNumeric(n))
        /\ IsSome(reading.rapl_joules) =>
              Val(reading.rapl_joules) = CounterJoulesOver(Sources)

C11_Witness ==
    /\ ReadingReturned
    /\ Sources = {PKG0, PKG1}
    /\ fs.dirs[PKG0].energy_uj = Numeric(MaxJoules * UJ_PER_JOULE)
    /\ fs.dirs[PKG1].energy_uj.kind = "unreadable"
    /\ IsNone(reading.rapl_joules)

(* C12: source discovery returns exactly the entries of the counter        *)
(* location that are top-level package directories ("intel-rapl:<id>" with *)
(* no further colon) and expose energy_uj, in sorted order; a nested       *)
(* sub-domain directory and a package directory without energy_uj are      *)
(* never in the result, and a missing base location gives the empty list.  *)
C12_Discovery ==
    (rpc \in {"read_rapl", "read_cpu", "monotonic", "returned"}) =>
        /\ {packages[i] : i \in 1..Len(packages)} = Sources
        /\ Len(packages) = Cardinality(Sources)
        /\ (Sources = {PKG0, PKG1}) => packages = <<PKG0, PKG1>>
        /\ \A i \in 1..Len(packages) :
              /\ packages[i] # SUB00
              /\ packages[i] # MMIO0
              /\ fs.dirs[packages[i]].energy_uj.kind # "absent"
        /\ (fs.base = "missing") => packages = <<>>

C12_Witness ==
    /\ rpc = "read_rapl"
    /\ fs.base = "ok"
    /\ fs.dirs[SUB00].present /\ fs.dirs[SUB00].energy_uj.kind = "numeric"
    /\ fs.dirs[PKG0].present /\ fs.dirs[PKG0].energy_uj.kind = "absent"
    /\ fs.dirs[PKG1].present /\ fs.dirs[PKG1].energy_uj.kind = "numeric"
    /\ packages = <<PKG1>>

(* C18: take_reading records the monotonic timestamp as its first step,    *)
(* before it enumerates the sources, reads their counters and reads the    *)
(* CPU time: the returned timestamp is the clock at the call's entry.      *)
(* Violated: time.monotonic() is evaluated last, when the reading is       *)
(* built, so the timestamp is the clock after the three reads.             *)
C18_TimestampFirst ==
    ReadingReturned => reading.timestamp = entered


----------------------------------------------------------------------------
(* benchmark_manager: one install trial *)

MaxRepetitions == 2   \* run indices are drawn from 1..MaxRepetitions

RunnerNames == <<"pip", "uv", "poetry">>
DEFAULT_PACKAGES == <<"requests", "numpy", "flask">>

(* take_reading as one call at clock t *)
take_reading(f, ps, t) ==
    LET pk == RaplPackages(f)
        uj == IF pk.list # <<>> THEN ReadRaplUj(f, pk.list) ELSE None
    IN  [raised |-> pk.raised,
         reading |-> IF pk.raised THEN NoReading
                     ELSE EnergyReading(t,
                              IF IsSome(uj) THEN Some(ToJoules(Val(uj))) ELSE None,
                              ReadCpuTime(ps))]

Event(what) == [what |-> what, at |-> now]

(* The statement that follows statement p when p completes normally: the   *)
(* end reading is taken inside the with block, the directory is removed    *)
(* when the block is left, the measurement is computed after it.           *)
TrialAfter_CleanupFirst(p) ==
    CASE p = "mkdtemp" -> "start_reading"
      [] p = "start_reading" -> "run_install"
      [] p = "run_install" -> "installing"
      [] p = "installing" -> "cleanup"
      [] p = "cleanup" -> "end_reading"
      [] p = "end_reading" -> "compute_energy"
      [] p = "compute_energy" -> "returned"

TrialAfter(p) ==
    CASE p = "mkdtemp" -> "start_reading"
      [] p = "start_reading" -> "run_install"
      [] p = "run_install" -> "installing"
      [] p = "installing" -> "end_reading"
      [] p = "end_reading" -> "cleanup"
      [] p = "cleanup" -> "compute_energy"
      [] p = "compute_energy" -> "returned"

(* Where control goes when run_install raises exc: the handler of          *)
(* RuntimeError re-raises, any other exception is not caught.              *)
AfterInstallError_Swallowed(exc) ==
    IF exc = "RuntimeError" THEN TrialAfter("installing") ELSE "unwind"

AfterInstallError(exc) == "unwind"

(* The outcomes of runner.run_install: _run raises RuntimeError on a       *)
(* non-zero exit, subprocess.run raises TimeoutExpired on a timeout.       *)
InstallOutcomes == {"ok", "RuntimeError", "TimeoutExpired"}

(* A machine with one package whose counter holds j joules *)
TrialFs(j) ==
    [base |-> "ok",
     dirs |-> [n \in Names |->
                 IF n = PKG0
                 THEN Dir(Numeric(j * UJ_PER_JOULE), Numeric(MaxRangeUj(PKG0)))
                 ELSE NoDir]]

TrialFileSystems == {FsMissing, FsUnlistable} \cup {TrialFs(j) : j \in 0..MaxJoules}

TrialPsutils == {PsutilMissing, PsutilFailing} \cup
                {PsutilTimes(u, 0, FALSE, 0, 0) : u \in 0..MaxCpu}

(* What the install leaves behind: the counter and the CPU time moved *)
FsAfterInstall(f) ==
    IF f.base = "ok" THEN {TrialFs(j) : j \in 0..MaxJoules} ELSE {f}

PsutilAfterInstall(ps) ==
    IF ps.kind = "ok" THEN {PsutilTimes(u, 0, FALSE, 0, 0) : u \in ps.user..MaxCpu}
    ELSE {ps}

InitTrial ==
    /\ fs \in TrialFileSystems
    /\ psutil \in TrialPsutils
    /\ tdp_watts \in Tdps
    /\ trial \in [runner : {RunnerNames[i] : i \in 1..Len(RunnerNames)},
                  packages : {DEFAULT_PACKAGES},
                  run_index : 1..MaxRepetitions]
    /\ tpc = "mkdtemp"
    /\ events = <<>>
    /\ tmpdir = "none"
    /\ error = "none"
    /\ result = NoResult
    /\ now = 0
    /\ start = NoReading
    /\ end = NoReading
    /\ measurement = NoMeasurement
    /\ fsReads = <<>>
    /\ pc = "idle"
    /\ rpc = "idle"
    /\ packages = <<>>
    /\ rapl_uj = None
    /\ cpu_time = None
    /\ reading = NoReading
    /\ entered = 0
    /\ CsvIdle
    /\ MainIdle
    /\ SummaryIdle

trialEnv == <<pc, fsReads, rpc, packages, rapl_uj, cpu_time, reading, entered,
              csvVars, mainVars, summaryVars>>

(* line 194: with tempfile.TemporaryDirectory(prefix="pkgbench_") as tmp *)
TrialMkdtemp ==
    /\ tpc = "mkdtemp"
    /\ tmpdir' = "exists"
    /\ events' = Append(events, Event("mkdtemp"))
    /\ tpc' = TrialAfter(tpc)
    /\ UNCHANGED <<fs, psutil, now, tdp_watts, trial, start, end, measurement,
                   error, result, trialEnv>>

(* line 197: start = take_reading() *)
TrialStartReading ==
    /\ tpc = "start_reading"
    /\ LET r == take_reading(fs, psutil, now)
       IN  /\ events' = Append(events, Event("take_reading"))
           /\ start' = r.reading
           /\ error' = IF r.raised THEN "PermissionError" ELSE error
           /\ tpc' = IF r.raised THEN "unwind" ELSE TrialAfter(tpc)
    /\ UNCHANGED <<fs, psutil, now, tdp_watts, trial, end, measurement,
                   tmpdir, result, trialEnv>>

(* line 199: runner.run_install(packages, tmp_path) is entered *)
TrialInstallBegin ==
    /\ tpc = "run_install"
    /\ events' = Append(events, Event("run_install"))
    /\ tpc' = TrialAfter(tpc)
    /\ UNCHANGED <<fs, psutil, now, tdp_watts, trial, start, end, measurement,
                   tmpdir, error, result, trialEnv>>

(* lines 199-202: run_install returns or raises *)
TrialInstallEnd ==
    /\ tpc = "installing"
    /\ \E outcome \in InstallOutcomes :
          /\ events' = IF outcome = "RuntimeError"
                       THEN events \o <<Event("run_install raised"), Event("logger.warning")>>
                       ELSE IF outcome = "ok"
                       THEN Append(events, Event("run_install returned"))
                       ELSE Append(events, Event("run_install raised"))
          /\ error' = IF outcome = "ok" THEN error ELSE outcome
          /\ tpc' = IF outcome = "ok" THEN TrialAfter(tpc) ELSE AfterInstallError(outcome)
    /\ fs' \in FsAfterInstall(fs)
    /\ psutil' \in PsutilAfterInstall(psutil)
    /\ UNCHANGED <<now, tdp_watts, trial, start, end, measurement,
                   tmpdir, result, trialEnv>>

(* line 203: end = take_reading() *)
TrialEndReading ==
    /\ tpc = "end_reading"
    /\ LET r == take_reading(fs, psutil, now)
       IN  /\ events' = Append(events, Event("take_reading"))
           /\ end' = r.reading
           /\ error' = IF r.raised THEN "PermissionError" ELSE error
           /\ tpc' = IF r.raised THEN "unwind" ELSE TrialAfter(tpc)
    /\ UNCHANGED <<fs, psutil, now, tdp_watts, trial, start, measurement,
                   tmpdir, result, trialEnv>>

(* the with block is left normally: the directory is removed *)
TrialCleanup ==
    /\ tpc = "cleanup"
    /\ tmpdir' = "removed"
    /\ events' = Append(events, Event("cleanup"))
    /\ tpc' = TrialAfter(tpc)
    /\ UNCHANGED <<fs, psutil, now, tdp_watts, trial, start, end, measurement,
                   error, result, trialEnv>>

(* the with block is left by an exception: the directory is removed and    *)
(* the exception goes on to the caller                                     *)
TrialUnwind ==
    /\ tpc = "unwind"
    /\ tmpdir' = "removed"
    /\ events' = Append(events, Event("cleanup"))
    /\ tpc' = "raised"
    /\ UNCHANGED <<fs, psutil, now, tdp_watts, trial, start, end, measurement,
                   error, result, trialEnv>>

(* lines 205-216: the measurement and the BenchmarkResult *)
TrialCompute ==
    /\ tpc = "compute_energy"
    /\ LET r == compute_energy(start, end, tdp_watts, fs)
       IN  /\ events' = Append(events, Event("compute_energy"))
           /\ measurement' = r.measurement
           /\ error' = IF r.raised THEN "PermissionError" ELSE error
           /\ tpc' = IF r.raised THEN "raised" ELSE TrialAfter(tpc)
           /\ result' = IF r.raised THEN result
                        ELSE BenchmarkResult(trial.runner, "install", trial.packages,
                                             trial.run_index,
                                             r.measurement.duration_seconds,
                                             r.measurement.energy_joules,
                                             r.measurement.source,
                                             r.measurement.notes)
    /\ UNCHANGED <<fs, psutil, now, tdp_watts, trial, start, end,
                   tmpdir, trialEnv>>

(* The monotonic clock advances while the trial runs *)
TrialTick ==
    /\ tpc \notin {"idle", "returned", "raised"}
    /\ now < MaxTime
    /\ now' = now + 1
    /\ UNCHANGED <<fs, psutil, tdp_watts, trial, start, end, measurement,
                   tpc, events, tmpdir, error, result, trialEnv>>

NextTrial ==
    \/ TrialMkdtemp
    \/ TrialStartReading
    \/ TrialInstallBegin
    \/ TrialInstallEnd
    \/ TrialEndReading
    \/ TrialCleanup
    \/ TrialUnwind
    \/ TrialCompute
    \/ TrialTick

SpecTrial == InitTrial /\ [][NextTrial]_vars

----------------------------------------------------------------------------
(* Vocabulary of the benchmark_manager properties *)

EventNames == [i \in 1..Len(events) |-> events[i].what]
EventCount(what) == Cardinality({i \in 1..Len(events) : events[i].what = what})
TrialReturned == tpc = "returned"
TrialRaised == tpc = "raised"
InstallFailed == error = "RuntimeError"

(* C15: when run_install raises RuntimeError the error reaches the caller:  *)
(* the call can only unwind and end raised with that error, no result is    *)
(* returned, the only reading taken is the start reading, no measurement is *)
(* computed, and the temporary directory is removed once the call has ended *)
(* (raised or returned).                                                    *)
C15_InstallErrorPropagates ==
    /\ InstallFailed =>
          /\ tpc \in {"unwind", "raised"}
          /\ result = NoResult
          /\ EventCount("take_reading") = 1
          /\ end = NoReading
          /\ EventCount("compute_energy") = 0
          /\ measurement = NoMeasurement
    /\ (TrialRaised \/ TrialReturned) => tmpdir = "removed"

C15_Witness ==
    /\ TrialRaised
    /\ InstallFailed
    /\ tmpdir = "removed"
    /\ EventNames = <<"mkdtemp", "take_reading", "run_install", "run_install raised",
                      "logger.warning", "cleanup">>

(* C19: in a successful trial the events are, in this order: directory      *)
(* created, start reading, run_install entered and returned, end reading,   *)
(* directory removed, measurement computed; the start timestamp lies        *)
(* between the creation and the entry of run_install, the end timestamp     *)
(* between the return of run_install and the removal, so the measured       *)
(* duration covers the install.                                             *)
C19_TrialEventOrder ==
    TrialReturned =>
        /\ EventNames = <<"mkdtemp", "take_reading", "run_install",
                          "run_install returned", "take_reading", "cleanup",
                          "compute_energy">>
        /\ \A i \in 1..(Len(events) - 1) : events[i].at <= events[i + 1].at
        /\ events[1].at <= start.timestamp
        /\ start.timestamp <= events[3].at
        /\ events[4].at <= end.timestamp
        /\ end.timestamp <= events[6].at
        /\ result.duration_seconds >= events[4].at - events[3].at

C19_Witness ==
    /\ TrialReturned
    /\ events[3].at < events[4].at
    /\ result.duration_seconds = 1
    /\ tmpdir = "removed"


----------------------------------------------------------------------------
(* BenchmarkResult.as_row and append_result *)

MaxCalls == 3    \* append_result is called at most MaxCalls times

CSV_FIELDS == <<"manager", "operation", "packages", "run", "duration_seconds",
                "energy_joules", "energy_source", "notes">>

(* " ".join(self.packages) *)
RECURSIVE Join(_)
Join(p) ==
    IF Len(p) <= 1 THEN p
    ELSE <<Head(p), " ">> \o Join(Tail(p))

(* round(x, 4): the model's durations and energies are whole numbers,      *)
(* which have no digit after the fourth decimal place to round away        *)
Round4(x) == x

as_row(r) ==
    [manager |-> r.manager,
     operation |-> r.operation,
     packages |-> Join(r.packages),
     run |-> r.run,
     duration_seconds |-> Round4(r.duration_seconds),
     energy_joules |-> Round4(r.energy_joules),
     energy_source |-> r.energy_source,
     notes |-> r.notes]

(* The lines of the file: the header line or the line of one row *)
HeaderLine == [kind |-> "header", cells |-> CSV_FIELDS]
RowLine(r) == [kind |-> "row", cells |-> as_row(r)]

(* line 226: write_header = not output_path.exists() *)
WriteHeader_Always(o) == TRUE

WriteHeader(o) == ~o.exists

(* append_result on the output path o: the parent directories are made,    *)
(* the file is opened for appending (PermissionError on a read-only file), *)
(* the header is written to a new file, then the row.                      *)
append_result(r, o) ==
    LET write_header == WriteHeader(o)
        made == [o EXCEPT !.parent = TRUE]
    IN  IF ~o.writable THEN [raised |-> TRUE, out |-> made]
        ELSE [raised |-> FALSE,
              out |-> [made EXCEPT
                         !.exists = TRUE,
                         !.lines = o.lines
                                   \o (IF write_header THEN <<HeaderLine>> ELSE <<>>)
                                   \o <<RowLine(r)>>]]

(* The result of a one-second install on a machine without RAPL and psutil *)
ResultOf(name, run) ==
    LET m == ElapsedTier(EnergyReading(0, None, None), EnergyReading(1, None, None),
                         DEFAULT_TDP_WATTS).measurement
    IN  BenchmarkResult(name, "install", DEFAULT_PACKAGES, run, m.duration_seconds,
                        m.energy_joules, m.source, m.notes)

AppendResults == {ResultOf(name, run) : name \in {"pip", "uv"}, run \in 1..MaxRepetitions}

(* The output path before the first call: no file below missing or         *)
(* existing parent directories, an empty file, a file of an earlier run,   *)
(* a read-only file.                                                       *)
OutputFiles ==
    {[parent |-> FALSE, exists |-> FALSE, writable |-> TRUE, lines |-> <<>>],
     [parent |-> TRUE, exists |-> FALSE, writable |-> TRUE, lines |-> <<>>],
     [parent |-> TRUE, exists |-> TRUE, writable |-> TRUE, lines |-> <<>>],
     [parent |-> TRUE, exists |-> TRUE, writable |-> TRUE,
      lines |-> <<HeaderLine, RowLine(ResultOf("poetry", 1))>>],
     [parent |-> TRUE, exists |-> TRUE, writable |-> FALSE, lines |-> <<HeaderLine>>]}

InitAppend ==
    /\ out \in OutputFiles
    /\ out0 = out
    /\ calls = <<>>
    /\ fs = FsMissing
    /\ start = NoReading
    /\ end = NoReading
    /\ tdp_watts = DEFAULT_TDP_WATTS
    /\ pc = "idle"
    /\ measurement = NoMeasurement
    /\ fsReads = <<>>
    /\ psutil = PsutilMissing
    /\ now = 0
    /\ rpc = "idle"
    /\ packages = <<>>
    /\ rapl_uj = None
    /\ cpu_time = None
    /\ reading = NoReading
    /\ entered = 0
    /\ TrialIdle
    /\ MainIdle
    /\ SummaryIdle

(* lines 224-232: one call of append_result on the output path *)
AppendResult ==
    /\ Len(calls) < MaxCalls
    /\ \E r \in AppendResults :
          /\ out' = append_result(r, out).out
          /\ calls' = Append(calls, r)
    /\ UNCHANGED <<fs, computeVars, readingVars, trialVars, mainVars, summaryVars, out0>>

NextAppend == AppendResult

SpecAppend == InitAppend /\ [][NextAppend]_vars

----------------------------------------------------------------------------
(* Vocabulary of the append_result properties *)

Kinds(lines) == [i \in 1..Len(lines) |-> lines[i].kind]
RowKinds(n) == [i \in 1..n |-> "row"]

(* C14: after n >= 1 calls on a path that did not exist before the first   *)
(* call the file exists below its parent directories and holds one header  *)
(* line followed by the n rows of the calls in call order; as this holds    *)
(* after every call, no call rewrites or removes an earlier line.           *)
C14_HeaderThenRowsInOrder ==
    (~out0.exists /\ Len(calls) >= 1) =>
        /\ out.exists
        /\ out.parent
        /\ Len(out.lines) = 1 + Len(calls)
        /\ Kinds(out.lines) = <<"header">> \o RowKinds(Len(calls))
        /\ out.lines[1].cells = CSV_FIELDS
        /\ \A i \in 1..Len(calls) : out.lines[i + 1].cells = as_row(calls[i])

C14_Witness ==
    /\ ~out0.exists
    /\ ~out0.parent
    /\ Len(calls) = MaxCalls
    /\ calls[1] # calls[2]
    /\ out.lines[3].cells = as_row(calls[2])


----------------------------------------------------------------------------
(* main *)

RunnerNameSet == {RunnerNames[i] : i \in 1..Len(RunnerNames)}

(* lines 296-302: the runners of RUNNERS, in its order, that are selected  *)
(* (all when --managers is not given) and available                        *)
Selected(managers, name) == IsNone(managers) \/ name \in Val(managers)

SelectRunners_IgnoreAvailability(managers, avail) ==
    SelectSeq(RunnerNames, LAMBDA name : Selected(managers, name))

SelectRunners(managers, avail) ==
    SelectSeq(RunnerNames, LAMBDA name : Selected(managers, name) /\ name \in avail)

(* lines 328-329: the positions <<runner index, run_idx>> of the nested    *)
(* loops, <<0, 0>> when the loops are over                                 *)
LoopDone == <<0, 0>>

LoopFirst(rs, reps) == IF rs # <<>> /\ reps >= 1 THEN <<1, 1>> ELSE LoopDone

LoopAfter_RunMajor(pos, rs, reps) ==
    IF pos[1] < Len(rs) THEN <<pos[1] + 1, pos[2]>>
    ELSE IF pos[2] < reps THEN <<1, pos[2] + 1>>
    ELSE LoopDone

LoopAfter(pos, rs, reps) ==
    IF pos[2] < reps THEN <<pos[1], pos[2] + 1>>
    ELSE IF pos[1] < Len(rs) THEN <<pos[1] + 1, 1>>
    ELSE LoopDone

TrialEntry(name, run, outcome) == [runner |-> name, run |-> run, outcome |-> outcome]

MainArgs ==
    [managers : {None} \cup {Some(S) : S \in (SUBSET RunnerNameSet) \ {{}}},
     repetitions : 0..MaxRepetitions]

InitMain ==
    /\ available \in SUBSET RunnerNameSet
    /\ args \in MainArgs
    /\ out \in OutputFiles
    /\ out0 = out
    /\ calls = <<>>
    /\ mpc = "start"
    /\ runners = <<>>
    /\ loop = LoopDone
    /\ completed = 0
    /\ log = <<>>
    /\ rc = -1
    /\ fs = FsMissing
    /\ start = NoReading
    /\ end = NoReading
    /\ tdp_watts = DEFAULT_TDP_WATTS
    /\ pc = "idle"
    /\ measurement = NoMeasurement
    /\ fsReads = <<>>
    /\ psutil = PsutilMissing
    /\ now = 0
    /\ rpc = "idle"
    /\ packages = <<>>
    /\ rapl_uj = None
    /\ cpu_time = None
    /\ reading = NoReading
    /\ entered = 0
    /\ TrialIdle
    /\ SummaryIdle

mainEnv == <<fs, computeVars, readingVars, trialVars, summaryVars, available, args, out0>>

(* lines 295-326: the runners are chosen; 1 is returned when there is none *)
MainSelect ==
    /\ mpc = "start"
    /\ LET rs == SelectRunners(args.managers, available)
       IN  /\ runners' = rs
           /\ IF rs = <<>>
              THEN /\ rc' = 1
                   /\ mpc' = "returned"
                   /\ loop' = loop
              ELSE /\ rc' = rc
                   /\ mpc' = "loop"
                   /\ loop' = LoopFirst(rs, args.repetitions)
    /\ UNCHANGED <<mainEnv, out, calls, completed, log>>

(* lines 330-350: one trial; benchmark_manager returns or raises, the      *)
(* result is appended, and any Exception of the two is logged as FAILED    *)
MainTrial ==
    /\ mpc = "loop"
    /\ loop # LoopDone
    /\ LET name == runners[loop[1]]
           run_idx == loop[2]
       IN  \E outcome \in InstallOutcomes :
              IF outcome = "ok"
              THEN LET res == ResultOf(name, run_idx)
                       a == append_result(res, out)
                   IN  /\ out' = a.out
                       /\ calls' = Append(calls, res)
                       /\ log' = Append(log, TrialEntry(name, run_idx,
                                     IF a.raised THEN "PermissionError" ELSE "ok"))
              ELSE /\ log' = Append(log, TrialEntry(name, run_idx, outcome))
                   /\ UNCHANGED <<out, calls>>
    /\ completed' = completed + 1
    /\ loop' = LoopAfter(loop, runners, args.repetitions)
    /\ UNCHANGED <<mainEnv, mpc, runners, rc>>

(* lines 352-353: the loops are over, 0 is returned *)
MainReturn ==
    /\ mpc = "loop"
    /\ loop = LoopDone
    /\ rc' = 0
    /\ mpc' = "returned"
    /\ UNCHANGED <<mainEnv, out, calls, runners, loop, completed, log>>

NextMain ==
    \/ MainSelect
    \/ MainTrial
    \/ MainReturn

SpecMain == InitMain /\ [][NextMain]_vars

----------------------------------------------------------------------------
(* Vocabulary of the main properties *)

MainReturned == mpc = "returned"
SelectedAvailable == {name \in available : Selected(args.managers, name)}

(* The rows of the trials that succeeded, in the order of the trials *)
RECURSIVE SucceededRows(_)
SucceededRows(l) ==
    IF l = <<>> THEN <<>>
    ELSE (IF Head(l).outcome = "ok"
          THEN <<as_row(ResultOf(Head(l).runner, Head(l).run))>>
          ELSE <<>>) \o SucceededRows(Tail(l))

(* The lines added to the output file since main was called *)
AddedLines == SubSeq(out.lines, Len(out0.lines) + 1, Len(out.lines))
AddedRows ==
    LET h == IF AddedLines # <<>> /\ AddedLines[1].kind = "header" THEN 1 ELSE 0
    IN  [i \in 1..(Len(AddedLines) - h) |-> AddedLines[i + h]]

(* C13: the j-th trial is run number ((j-1) mod repetitions) + 1 of runner  *)
(* number ((j-1) div repetitions) + 1 of the available selected runners;    *)
(* the rows added to the file are those of the succeeded trials, one each   *)
(* in trial order, a failed trial adds none; when main has returned after   *)
(* running trials it has run len(runners) x repetitions of them and has     *)
(* returned 0.                                                              *)
C13_AllTrialsRunnerMajor ==
    /\ mpc # "start" => Len(runners) = Cardinality(SelectedAvailable)
    /\ \A j \in 1..Len(log) :
          /\ log[j].runner = runners[((j - 1) \div args.repetitions) + 1]
          /\ log[j].run = ((j - 1) % args.repetitions) + 1
    /\ Len(AddedRows) = Len(SucceededRows(log))
    /\ \A i \in 1..Len(AddedRows) :
          /\ AddedRows[i].kind = "row"
          /\ AddedRows[i].cells = SucceededRows(log)[i]
    /\ Len(out.lines) >= Len(out0.lines)
    /\ SubSeq(out.lines, 1, Len(out0.lines)) = out0.lines
    /\ (MainReturned /\ runners # <<>>) =>
          /\ rc = 0
          /\ Len(log) = Len(runners) * args.repetitions
          /\ completed = Len(log)

C13_Witness ==
    /\ MainReturned
    /\ rc = 0
    /\ runners = <<"pip", "poetry">>
    /\ args.repetitions = MaxRepetitions
    /\ log[1].outcome = "RuntimeError"
    /\ log[2].outcome = "ok"
    /\ log[3].outcome = "TimeoutExpired"
    /\ log[4].outcome = "ok"
    /\ Len(AddedRows) = 2

(* C16: when no selected runner is available main has, once past the choice *)
(* of runners, returned 1, run no trial, called append_result never and     *)
(* left the output path as it was.                                          *)
C16_NoRunnerReturnsOne ==
    (mpc # "start" /\ SelectedAvailable = {}) =>
        /\ MainReturned
        /\ rc = 1
        /\ log = <<>>
        /\ completed = 0
        /\ calls = <<>>
        /\ out = out0

C16_Witness ==
    /\ MainReturned
    /\ rc = 1
    /\ available = {"pip", "poetry"}
    /\ args.managers = Some({"uv"})
    /\ ~out0.exists
    /\ ~out.exists
    /\ log = <<>>


----------------------------------------------------------------------------
(* analyze.summarize *)

MaxRows == 3    \* summarize is called with at most MaxRows rows

(* float(text) of a CSV cell: ValueError when the text is no number *)
Float(cell) == [ok |-> cell.kind = "numeric", value |-> cell.value]

(* key = (row["manager"], row["operation"]) *)
Key_ManagerOnly(row) == <<row.manager>>

Key(row) == <<row.manager, row.operation>>

Entry(row) ==
    [duration |-> Float(row.duration_seconds).value,
     energy |-> Float(row.energy_joules).value,
     source |-> row.energy_source]

(* lines 35-44: groups[key].append(...) for each row, in row order *)
RECURSIVE GroupRows(_, _)
GroupRows(rs, groups) ==
    IF rs = <<>> THEN groups
    ELSE LET key == Key(Head(rs))
             entries == IF key \in DOMAIN groups THEN groups[key] ELSE <<>>
         IN  GroupRows(Tail(rs),
                       [k \in DOMAIN groups \cup {key} |->
                           IF k = key THEN Append(entries, Entry(Head(rs)))
                           ELSE groups[k]])

RECURSIVE SumSeq(_)
SumSeq(xs) == IF xs = <<>> THEN 0 ELSE Head(xs) + SumSeq(Tail(xs))

(* _mean: sum(xs) / len(xs), kept as the fraction num/den *)
Mean(xs) == [num |-> SumSeq(xs), den |-> Len(xs)]

(* _std: 0 below two values, else sqrt(sum((x - m)^2) / (len - 1)); kept   *)
(* as the fraction num/den of its square, with m = sum/len multiplied out  *)
Std(xs) ==
    IF Len(xs) < 2 THEN [num |-> 0, den |-> 1]
    ELSE LET n == Len(xs)
             total == SumSeq(xs)
         IN  [num |-> SumSeq([i \in 1..n |-> (n * xs[i] - total) * (n * xs[i] - total)]),
              den |-> n * n * (n - 1)]

Stats(entries) ==
    LET durations == [i \in 1..Len(entries) |-> entries[i].duration]
        energies == [i \in 1..Len(entries) |-> entries[i].energy]
    IN  [n |-> Len(entries),
         duration_mean |-> Mean(durations),
         duration_std |-> Std(durations),
         energy_mean |-> Mean(energies),
         energy_std |-> Std(energies),
         sources |-> {entries[i].source : i \in 1..Len(entries)}]

(* summarize: ValueError from float() in the first loop, else the summary *)
summarize(rs) ==
    IF \E i \in 1..Len(rs) : ~Float(rs[i].duration_seconds).ok \/ ~Float(rs[i].energy_joules).ok
    THEN [raised |-> TRUE, summary |-> <<>>]
    ELSE LET groups == GroupRows(rs, <<>>)
         IN  [raised |-> FALSE,
              summary |-> [key \in DOMAIN groups |-> Stats(groups[key])]]

(* The rows of a results file: an install or a removal by pip or uv, its   *)
(* duration a whole number of seconds or a text that is no number          *)
CsvRows ==
    {[manager |-> m, operation |-> op, duration_seconds |-> d,
      energy_joules |-> Numeric(d.value * DEFAULT_TDP_WATTS),
      energy_source |-> IF d.value = 0 THEN "rapl" ELSE "elapsed_time_estimate"] :
        m \in {"pip", "uv"}, op \in {"install", "remove"},
        d \in {Garbage} \cup {Numeric(v) : v \in 0..MaxTime}}

RECURSIVE SeqsUpTo(_, _)
SeqsUpTo(S, n) ==
    IF n = 0 THEN {<<>>}
    ELSE LET shorter == SeqsUpTo(S, n - 1)
         IN  shorter \cup {Append(q, x) : q \in shorter, x \in S}

InitSummarize ==
    /\ rows \in SeqsUpTo(CsvRows, MaxRows)
    /\ spc = "call"
    /\ summary = <<>>
    /\ fs = FsMissing
    /\ start = NoReading
    /\ end = NoReading
    /\ tdp_watts = DEFAULT_TDP_WATTS
    /\ pc = "idle"
    /\ measurement = NoMeasurement
    /\ fsReads = <<>>
    /\ psutil = PsutilMissing
    /\ now = 0
    /\ rpc = "idle"
    /\ packages = <<>>
    /\ rapl_uj = None
    /\ cpu_time = None
    /\ reading = NoReading
    /\ entered = 0
    /\ TrialIdle
    /\ CsvIdle
    /\ MainIdle

(* lines 26-69: one call of summarize *)
Summarize ==
    /\ spc = "call"
    /\ LET r == summarize(rows)
       IN  /\ spc' = IF r.raised THEN "raised" ELSE "returned"
           /\ summary' = r.summary
    /\ UNCHANGED <<fs, computeVars, readingVars, trialVars, csvVars, mainVars, rows>>

NextSummarize == Summarize

SpecSummarize == InitSummarize /\ [][NextSummarize]_vars

----------------------------------------------------------------------------
(* Vocabulary of the summarize properties *)

SummaryReturned == spc = "returned"
RowKey(i) == <<rows[i].manager, rows[i].operation>>
RowKeys == {RowKey(i) : i \in 1..Len(rows)}

RECURSIVE SumOfN(_)
SumOfN(keys) ==
    IF keys = {} THEN 0
    ELSE LET k == CHOOSE x \in keys : TRUE
         IN  summary[k].n + SumOfN(keys \ {k})

(* C17: the summary summarize returns has an entry for exactly the         *)
(* (manager, operation) pairs that occur in the rows, the n of an entry is  *)
(* the number of rows with its pair, and the n values add up to the number  *)
(* of rows.                                                                 *)
C17_SummaryPartitionsRows ==
    SummaryReturned =>
        /\ DOMAIN summary = RowKeys
        /\ \A k \in DOMAIN summary :
              summary[k].n = Cardinality({i \in 1..Len(rows) : RowKey(i) = k})
        /\ SumOfN(DOMAIN summary) = Len(rows)

C17_Witness ==
    /\ SummaryReturned
    /\ Len(rows) = MaxRows
    /\ DOMAIN summary = {<<"pip", "install">>, <<"pip", "remove">>}
    /\ summary[<<"pip", "install">>].n = MaxRows - 1
    /\ summary[<<"pip", "remove">>].n = 1
    /\ RowKey(2) = <<"pip", "remove">>

====
